---- MODULE Spec2Model ----
(***************************************************************************)
(* Model of notifier/views.py: NotifyTelegramView, the POST /notify/       *)
(* endpoint that validates a registration submission, forwards it to a     *)
(* Telegram group, confirms to the admin, and alerts the admin on failure. *)
(*                                                                         *)
(* One request is in flight at a time (a view instance is created per      *)
(* request and shares no mutable state with any other).  Every call of     *)
(* bot.send_message is an awaited external call: it is started in one step *)
(* (state "pending") and completes, with an outcome chosen by the          *)
(* environment, in a later step.                                           *)
(***************************************************************************)
EXTENDS Integers, Sequences, FiniteSets, TLC

VARIABLES
    pc,          \* position of the handler: idle, post, group, confirm, alert, done
    data,        \* request.data: a function from the keys present to their values
    calls,       \* the bot.send_message calls of this request, in order
    alertCalls,  \* number of invocations of notify_admin_error in this request
    exc,         \* the exception send_telegram_message is handling (NoExc if none)
    raised,      \* the exception that left send_telegram_message / validate_input
    log,         \* the log records written for this request
    response     \* the Response post returned (NoResponse before it returns)

vars == <<pc, data, calls, alertCalls, exc, raised, log, response>>

----------------------------------------------------------------------------
(* Bounds and program constants *)

MaxPhoneLen == 11

MinPhoneLen == 10

HTTP_200_OK == 200
HTTP_400_BAD_REQUEST == 400
HTTP_502_BAD_GATEWAY == 502
HTTP_500_INTERNAL_SERVER_ERROR == 500

TELEGRAM_GROUP_ID == "TELEGRAM_GROUP_ID"
TELEGRAM_ADMIN_ID == "TELEGRAM_ADMIN_ID"

----------------------------------------------------------------------------
(* The inputs a request body can carry *)

Digits == {"7"}
Chars == {"7", "x"}

RECURSIVE StringsUpTo(_)
StringsUpTo(n) ==
    IF n = 0 THEN {<<>>}
    ELSE LET S == StringsUpTo(n - 1)
         IN  S \cup {Append(s, c) : s \in {t \in S : Len(t) = n - 1}, c \in Chars}

\* a JSON value under "phone": a string, a number or null
PhoneValues ==
    {[t |-> "str", s |-> s] : s \in StringsUpTo(MaxPhoneLen)}
    \cup {[t |-> "int", s |-> <<"7", "7", "7">>], [t |-> "null", s |-> <<>>]}

\* a JSON value under "fees_paid": true, false, or the number 1
FeesValues ==
    {[t |-> "bool", b |-> TRUE], [t |-> "bool", b |-> FALSE], [t |-> "int", b |-> TRUE]}

NameValues == {"Alice", "Bob"}
EmailValues == {"student@example.com"}
CourseValues == {"", "Computer Science"}

\* an optional key: <<>> when the key is absent, <<v>> when it holds v
Opt(S) == {<<>>} \cup {<<v>> : v \in S}

MkData(n, p, f, e, c) ==
    LET o == [name |-> n, phone |-> p, fees_paid |-> f, email |-> e, course |-> c]
    IN  [k \in {j \in DOMAIN o : o[j] # <<>>} |-> o[k][1]]

\* the exception classes a step of the send path can raise, by the except
\* clause of post that catches them
ErrClasses == {"TelegramError", "ValueError", "Exception"}

\* the exception class of a failing Bot(token=...): the library rejects an
\* unusable token with InvalidToken, a TelegramError
BotErrClasses == {"TelegramError"}

----------------------------------------------------------------------------
(* Values *)

NoExc == [cls |-> "None", msg |-> <<>>]
NoResponse == [status |-> 0, body |-> [status |-> "none"]]
NoData == [k \in {} |-> 0]

Exc(cls, msg) == [cls |-> cls, msg |-> msg]

\* the exception a failing library call raises: its text names the call
LibError(cls, at) == Exc(cls, <<"detail of the failure in", at>>)

----------------------------------------------------------------------------
(* validate_input *)

\* str.isdigit(): non-empty and every character a digit
isdigit(s) == Len(s) > 0 /\ \A i \in 1..Len(s) : s[i] \in Digits

\* data.get(key, default)
Get(d, key, default) == IF key \in DOMAIN d THEN d[key] ELSE default

required_fields == <<"name", "phone">>

\* faulty variant: only the first missing field is reported
missing_fields_FirstOnly(d) ==
    LET m == SelectSeq(required_fields, LAMBDA f : f \notin DOMAIN d)
    IN  IF m = <<>> THEN <<>> ELSE <<m[1]>>

missing_fields(d) == SelectSeq(required_fields, LAMBDA f : f \notin DOMAIN d)

\* the exception validate_input raises on d, NoExc when it returns
validate_input(d) ==
    IF missing_fields(d) # <<>>
    THEN Exc("ValueError", <<"Missing required fields:">> \o missing_fields(d))
    ELSE IF Get(d, "fees_paid", [t |-> "bool", b |-> FALSE]).t # "bool"
    THEN Exc("ValueError", <<"fees_paid must be a boolean value">>)
    ELSE IF d["phone"].t # "str"
    THEN Exc("AttributeError", <<"object has no attribute 'isdigit'">>)
    ELSE IF ~(isdigit(d["phone"].s) /\ Len(d["phone"].s) >= MinPhoneLen)
    THEN Exc("ValueError", <<"Phone number must be at least 10 digits">>)
    ELSE NoExc

----------------------------------------------------------------------------
(* post: extraction of the fields, responses and except clauses *)

None == "<None>"

name == data["name"]
phone == data["phone"]
\* faulty variant: an absent fees_paid defaults to true
fees_paid_DefaultTrue == Get(data, "fees_paid", [t |-> "bool", b |-> TRUE])

fees_paid == Get(data, "fees_paid", [t |-> "bool", b |-> FALSE])
email == Get(data, "email", None)
course == Get(data, "course", None)

\* truth value of an optional text: None and the empty string are false
Truthy(v) == v # None /\ v # ""

SuccessResponse ==
    [status |-> HTTP_200_OK,
     body |-> [status |-> "success",
               message |-> <<"Registration request sent successfully!">>,
               data |-> [name |-> name, phone |-> phone, fees_paid |-> fees_paid]]]

ErrorResponse(code, msg) ==
    [status |-> code, body |-> [status |-> "error", message |-> msg]]

\* the Response of the except clause of post that catches e
ExceptResponse(e) ==
    IF e.cls = "ValueError"
    THEN ErrorResponse(HTTP_400_BAD_REQUEST, e.msg)
    ELSE IF e.cls = "TelegramError"
    THEN ErrorResponse(HTTP_502_BAD_GATEWAY, <<"Failed to send notification to Telegram">>)
    ELSE ErrorResponse(HTTP_500_INTERNAL_SERVER_ERROR, <<"An unexpected error occurred">>)

\* the log record of the except clause of post that catches e
ExceptLog(e) ==
    IF e.cls = "ValueError"
    THEN [level |-> "warning", text |-> <<"Validation error:">> \o e.msg]
    ELSE IF e.cls = "TelegramError"
    THEN [level |-> "error", text |-> <<"Telegram API error:">> \o e.msg]
    ELSE [level |-> "error", text |-> <<"Unexpected error:">> \o e.msg]

\* exception e reaches post, which logs (after the records lg) and responds
PostExcept(e, lg) ==
    /\ raised' = e
    /\ response' = ExceptResponse(e)
    /\ log' = Append(lg, ExceptLog(e))
    /\ pc' = "done"

----------------------------------------------------------------------------
(* send_telegram_message and notify_admin_error *)

RequestIds == {"3F2A9C1B", "A7D04E55"}

\* the formatted text, one tuple per line
message(rid) ==
    <<<<"New Registration Request">>, <<"Name:", name>>, <<"Phone:", phone.s>>>>
    \o (IF Truthy(email) THEN <<<<"Email:", email>>>> ELSE <<>>)
    \o (IF Truthy(course) THEN <<<<"Course:", course>>>> ELSE <<>>)
    \o <<<<"Fees Paid:", IF fees_paid.b THEN "Yes" ELSE "No">>,
         <<"Request ID:", rid>>>>

\* the inline keyboard: the callback_data of each button, row by row
keyboard ==
    <<<<<<"approve_", phone.s>>, <<"reject_", phone.s>>>>, <<<<"info_", phone.s>>>>>>

Call(kind, chat, text, markup) ==
    [kind |-> kind, chat_id |-> chat, text |-> text, reply_markup |-> markup,
     state |-> "pending", error |-> NoExc]

GroupCall(rid) == Call("registration", TELEGRAM_GROUP_ID, message(rid), keyboard)

ConfirmCall ==
    Call("confirmation", TELEGRAM_ADMIN_ID,
         <<<<"New registration request from", name,
             "received and forwarded to group.">>>>, <<>>)

AlertCall(error_message) ==
    Call("alert", TELEGRAM_ADMIN_ID, <<<<"System Error">>, error_message>>, <<>>)

\* the calls with the last one, which was pending, returned
Succeed(cs) == [cs EXCEPT ![Len(cs)].state = "ok"]

\* the calls with the last one, which was pending, failed with exception e
Fail(cs, e) == [cs EXCEPT ![Len(cs)].state = "failed", ![Len(cs)].error = e]

\* faulty variant: the failure of the alert replaces the original exception
AfterAlertFailure_Propagates(e, a) == a

\* the exception that leaves send_telegram_message when the alert for e
\* itself failed with a: a is logged and dropped, e is re-raised
AfterAlertFailure(e, a) == e

FailedNotifyLog(a) == [level |-> "error", text |-> <<"Failed to notify admin:">> \o a.msg]

\* notify_admin_error(error_message) called while handling e, the calls so
\* far being cs and the log lg: it builds a Bot and starts the alert call,
\* or fails before the call and swallows that failure
notify_admin_error(e, error_message, cs, lg) ==
    /\ alertCalls' = alertCalls + 1
    /\ exc' = e
    /\ \/ /\ calls' = Append(cs, AlertCall(error_message))
          /\ pc' = "alert"
          /\ log' = lg
          /\ UNCHANGED <<raised, response>>
       \/ \E k \in BotErrClasses :
            /\ calls' = cs
            /\ PostExcept(AfterAlertFailure(e, LibError(k, "Bot")),
                          Append(lg, FailedNotifyLog(LibError(k, "Bot"))))

\* faulty variant: the except clauses log and re-raise without alerting the admin
SendExcept_NoAlert(e, cs) ==
    /\ calls' = cs
    /\ exc' = e
    /\ UNCHANGED alertCalls
    /\ PostExcept(e, Append(log, [level |-> "error", text |-> <<"Unexpected error:">> \o e.msg]))

\* the except clauses of send_telegram_message, entered with exception e
SendExcept(e, cs) ==
    IF e.cls = "TelegramError"
    THEN notify_admin_error(e, <<"Failed to send message:">> \o e.msg, cs,
             Append(log, [level |-> "error", text |-> <<"Telegram API error:">> \o e.msg]))
    ELSE notify_admin_error(e, <<"Unexpected error:">> \o e.msg, cs,
             Append(log, [level |-> "error", text |-> <<"Unexpected error:">> \o e.msg]))

----------------------------------------------------------------------------
(* Actions *)

Init ==
    /\ pc = "idle"
    /\ data = NoData
    /\ calls = <<>>
    /\ alertCalls = 0
    /\ exc = NoExc
    /\ raised = NoExc
    /\ log = <<>>
    /\ response = NoResponse

\* a POST /notify/ request is dispatched to a fresh view instance
Receive ==
    /\ pc = "idle"
    /\ \E n \in Opt(NameValues), p \in Opt(PhoneValues), f \in Opt(FeesValues),
          e \in Opt(EmailValues), c \in Opt(CourseValues) :
            data' = MkData(n, p, f, e, c)
    /\ pc' = "post"
    /\ calls' = <<>>
    /\ alertCalls' = 0
    /\ exc' = NoExc
    /\ raised' = NoExc
    /\ log' = <<>>
    /\ response' = NoResponse

\* faulty variant: a validation failure is reported to the admin as well
PostInvalid_Alerts ==
    /\ pc = "post"
    /\ validate_input(data) # NoExc
    /\ notify_admin_error(validate_input(data),
                          <<"Unexpected error:">> \o validate_input(data).msg, calls, log)
    /\ UNCHANGED data

\* validate_input raises: post answers from its except clauses
PostInvalid ==
    /\ pc = "post"
    /\ validate_input(data) # NoExc
    /\ PostExcept(validate_input(data), log)
    /\ UNCHANGED <<data, calls, alertCalls, exc>>

\* faulty variant: the send is scheduled and post answers without waiting for it
PostSend_NoWait ==
    /\ pc = "post"
    /\ validate_input(data) = NoExc
    /\ \E rid \in RequestIds : calls' = Append(calls, GroupCall(rid))
    /\ response' = SuccessResponse
    /\ pc' = "done"
    /\ UNCHANGED <<data, alertCalls, exc, raised, log>>

\* validation passes, the message is built and the group send is started
PostSend ==
    /\ pc = "post"
    /\ validate_input(data) = NoExc
    /\ \E rid \in RequestIds : calls' = Append(calls, GroupCall(rid))
    /\ pc' = "group"
    /\ UNCHANGED <<data, alertCalls, exc, raised, log, response>>

\* validation passes, but Bot(token=...) raises before anything is sent
PostBotFail ==
    /\ pc = "post"
    /\ validate_input(data) = NoExc
    /\ \E k \in BotErrClasses : SendExcept(LibError(k, "Bot"), calls)
    /\ UNCHANGED data

\* faulty variant: a failed group send is sent again
GroupDone_Retry ==
    /\ pc = "group"
    /\ \/ /\ calls' = Append(Succeed(calls), ConfirmCall)
          /\ pc' = "confirm"
          /\ UNCHANGED <<alertCalls, exc, raised, log, response>>
       \/ \E k \in ErrClasses, rid \in RequestIds :
            /\ Len(calls) < 3
            /\ calls' = Append(Fail(calls, LibError(k, "group send")), GroupCall(rid))
            /\ UNCHANGED <<pc, alertCalls, exc, raised, log, response>>
    /\ UNCHANGED data

\* the group send completes: on success the admin confirmation is started
GroupDone ==
    /\ pc = "group"
    /\ \/ /\ calls' = Append(Succeed(calls), ConfirmCall)
          /\ pc' = "confirm"
          /\ UNCHANGED <<alertCalls, exc, raised, log, response>>
       \/ \E k \in ErrClasses :
            SendExcept(LibError(k, "group send"), Fail(calls, LibError(k, "group send")))
    /\ UNCHANGED data

\* faulty variant: a failed admin confirmation is ignored and post returns 200
ConfirmDone_SwallowsFailure ==
    /\ pc = "confirm"
    /\ \/ calls' = Succeed(calls)
       \/ \E k \in ErrClasses : calls' = Fail(calls, LibError(k, "admin confirmation"))
    /\ response' = SuccessResponse
    /\ pc' = "done"
    /\ UNCHANGED <<data, alertCalls, exc, raised, log>>

\* the admin confirmation completes: on success post returns 200
ConfirmDone ==
    /\ pc = "confirm"
    /\ \/ /\ calls' = Succeed(calls)
          /\ response' = SuccessResponse
          /\ pc' = "done"
          /\ UNCHANGED <<alertCalls, exc, raised, log>>
       \/ \E k \in ErrClasses :
            SendExcept(LibError(k, "admin confirmation"),
                       Fail(calls, LibError(k, "admin confirmation")))
    /\ UNCHANGED data

\* the admin alert completes, either way the original exception is re-raised
AlertDone ==
    /\ pc = "alert"
    /\ \/ /\ calls' = Succeed(calls)
          /\ PostExcept(exc, log)
       \/ \E k \in ErrClasses :
            /\ calls' = Fail(calls, LibError(k, "admin alert"))
            /\ PostExcept(AfterAlertFailure(exc, LibError(k, "admin alert")),
                          Append(log, FailedNotifyLog(LibError(k, "admin alert"))))
    /\ UNCHANGED <<data, alertCalls, exc>>

\* the response has been handed to the framework and the view instance,
\* with everything it held, is dropped
Finish ==
    /\ pc = "done"
    /\ pc' = "idle"
    /\ data' = NoData
    /\ calls' = <<>>
    /\ alertCalls' = 0
    /\ exc' = NoExc
    /\ raised' = NoExc
    /\ log' = <<>>
    /\ response' = NoResponse

Next ==
    \/ Receive
    \/ Finish
    \/ PostInvalid
    \/ PostSend
    \/ PostBotFail
    \/ GroupDone
    \/ ConfirmDone
    \/ AlertDone

Spec == Init /\ [][Next]_vars

----------------------------------------------------------------------------
(* Vocabulary of the properties *)

Responded == pc = "done"

\* the submission passed validation
Validated == pc # "idle" /\ validate_input(data) = NoExc

\* the validator rejected the submission (it raised its ValidationError)
Rejected == pc # "idle" /\ validate_input(data).cls = "ValueError"

CallsOfKind(kind) == SelectSeq(calls, LAMBDA c : c.kind = kind)

Has(kind, st) == \E i \in 1..Len(calls) : calls[i].kind = kind /\ calls[i].state = st

HasFailedWith(kind, cls) ==
    \E i \in 1..Len(calls) :
        calls[i].kind = kind /\ calls[i].state = "failed" /\ calls[i].error.cls = cls

Pending == \E i \in 1..Len(calls) : calls[i].state = "pending"

Elems(seq) == {seq[i] : i \in 1..Len(seq)}

GatewayMessage == <<"Failed to send notification to Telegram">>
ServerMessage == <<"An unexpected error occurred">>

----------------------------------------------------------------------------
(* C1 *)

----------------------------------------------------------------------------
(* C2 *)

\* C2: when the group message and the admin confirmation both succeeded,
\* the response is 200 with status "success" and data holding exactly the
\* submitted name, phone and fees_paid, fees_paid being false when the
\* field was absent from the input.
C2_SuccessEchoesInput ==
    (Responded /\ Validated /\ Has("registration", "ok") /\ Has("confirmation", "ok"))
        => /\ response.status = 200
           /\ response.body.status = "success"
           /\ DOMAIN response.body.data = {"name", "phone", "fees_paid"}
           /\ response.body.data.name = data["name"]
           /\ response.body.data.phone = data["phone"]
           /\ response.body.data.fees_paid =
                  IF "fees_paid" \in DOMAIN data
                  THEN data["fees_paid"]
                  ELSE [t |-> "bool", b |-> FALSE]

C2_Witness ==
    /\ Responded /\ Has("registration", "ok") /\ Has("confirmation", "ok")
    /\ "fees_paid" \notin DOMAIN data
    /\ response.status = 200
    /\ response.body.data.fees_paid.b = FALSE

----------------------------------------------------------------------------
(* C3 *)

\* C3: when 'name' or 'phone' is absent from the input, whatever else it
\* holds, the response is 400 and its message names every missing required
\* field and no key that the input holds.
C3_MissingFieldsNamed ==
    (Responded /\ ("name" \notin DOMAIN data \/ "phone" \notin DOMAIN data))
        => /\ response.status = 400
           /\ \A f \in {"name", "phone"} :
                  f \notin DOMAIN data => f \in Elems(response.body.message)
           /\ \A f \in DOMAIN data : f \notin Elems(response.body.message)

C3_Witness ==
    /\ Responded
    /\ "name" \notin DOMAIN data
    /\ "phone" \in DOMAIN data /\ data["phone"].t = "null"
    /\ "fees_paid" \in DOMAIN data /\ data["fees_paid"].t = "int"
    /\ response.status = 400
    /\ response.body.message = <<"Missing required fields:", "name">>

----------------------------------------------------------------------------
(* C4 *)

\* a phone value that is not ten or more digit characters
BadPhone(p) ==
    \/ p.t = "null"
    \/ Len(p.s) < MinPhoneLen
    \/ \E i \in 1..Len(p.s) : p.s[i] \notin Digits

\* C4: a submission that has name and phone and whose phone value holds a
\* non-digit character or fewer than 10 characters, whatever kind of value
\* it is, is answered 400.
C4_BadPhoneIs400 ==
    (Responded /\ {"name", "phone"} \subseteq DOMAIN data /\ BadPhone(data["phone"]))
        => response.status = 400

----------------------------------------------------------------------------
(* C5 *)

\* C5: once notify_admin_error has been invoked, the exception that leaves
\* send_telegram_message is the original one and the status is the one the
\* original failure's class determines, whatever the alert's outcome.
C5_AlertFailureSwallowed ==
    (Responded /\ alertCalls >= 1)
        => /\ raised = exc
           /\ raised.msg # <<"detail of the failure in", "admin alert">>
           /\ response.status =
                  CASE exc.cls = "TelegramError" -> 502
                    [] exc.cls = "ValueError" -> 400
                    [] OTHER -> 500

C5_Witness ==
    /\ Responded
    /\ HasFailedWith("registration", "TelegramError")
    /\ HasFailedWith("alert", "Exception")
    /\ raised.cls = "TelegramError"
    /\ response.status = 502

----------------------------------------------------------------------------
(* C6 *)

\* C6: every failure after validation passed is answered 502 or 500 with
\* one of the two fixed messages, and 400 is returned only when the
\* validator rejected the input.
C6_NoErrorTextAfterValidation ==
    /\ (Responded /\ Validated /\ response.status # 200)
        => /\ response.status \in {502, 500}
           /\ response.body.message \in {GatewayMessage, ServerMessage}
    /\ (Responded /\ response.status = 400) => Rejected

----------------------------------------------------------------------------
(* C7 *)

\* C7: within one request the group send, the admin confirmation and the
\* admin error alert are each attempted at most once.
C7_NoRetry ==
    /\ Len(CallsOfKind("registration")) <= 1
    /\ Len(CallsOfKind("confirmation")) <= 1
    /\ Len(CallsOfKind("alert")) <= 1
    /\ alertCalls <= 1

C7_Witness ==
    /\ Responded
    /\ Has("registration", "failed")
    /\ Has("alert", "failed")
    /\ Len(calls) = 2

----------------------------------------------------------------------------
(* C8 *)

\* C8: no response exists while an outbound call of the request is pending,
\* and once the response exists no further outbound call is started.
C8_ResponseAfterCalls ==
    /\ [](response # NoResponse => ~Pending)
    /\ [][response # NoResponse =>
            /\ Len(calls') <= Len(calls)
            /\ alertCalls' <= alertCalls]_vars

C8_Witness ==
    /\ response # NoResponse
    /\ Len(calls) = 3
    /\ \A i \in 1..3 : calls[i].state \in {"ok", "failed"}

----------------------------------------------------------------------------
(* C9 *)

\* C9: when the validator rejects the submission no outbound call and no
\* admin alert is made, and the only effects are one warning log record and
\* the 400 response.
C9_RejectionSendsNothing ==
    Rejected
        => /\ calls = <<>>
           /\ alertCalls = 0
           /\ exc = NoExc
           /\ Responded =>
                /\ response.status = 400
                /\ Len(log) = 1
                /\ log[1].level = "warning"

C9_Witness ==
    /\ Responded /\ Rejected
    /\ "phone" \in DOMAIN data
    /\ data["phone"].t = "str" /\ Len(data["phone"].s) = MinPhoneLen
    /\ response.status = 400
    /\ Len(log) = 1

----------------------------------------------------------------------------
(* C10 *)

\* C10: the response is 200 exactly when the group send and the admin
\* confirmation both succeeded; a confirmation is attempted only after the
\* group send succeeded; when the group send succeeded and the confirmation
\* failed, an alert was attempted and the response is an error; a delivered
\* confirmation and an alert attempt never occur in the same request.
C10_SuccessIffBothDelivered ==
    /\ Responded =>
          (response.status = 200
              <=> (Has("registration", "ok") /\ Has("confirmation", "ok")))
    /\ \A i \in 1..Len(calls) :
          calls[i].kind = "confirmation"
              => \E j \in 1..(i - 1) :
                    calls[j].kind = "registration" /\ calls[j].state = "ok"
    /\ (Responded /\ Has("registration", "ok") /\ Has("confirmation", "failed"))
          => /\ alertCalls >= 1
             /\ response.status \in {400, 500, 502}
             /\ response.body.status = "error"
    /\ ~(Has("confirmation", "ok") /\ (alertCalls >= 1 \/ Len(CallsOfKind("alert")) >= 1))

C10_Witness ==
    /\ Responded
    /\ Has("registration", "ok")
    /\ Has("confirmation", "failed")
    /\ alertCalls = 1
    /\ response.status = 502

====
